---- MODULE Spec2Model ----
(***************************************************************************)
(* Request authorization and rate limiting of the AI SaaS API:             *)
(*   backend/api/app/dependencies.py  token functions, get_current_user,   *)
(*                                    get_optional_user,                   *)
(*                                    rate_limit_dependency                *)
(*   backend/api/app/main.py          verify_api_key, chat_completion,     *)
(*                                    generate_image                       *)
(*   backend/api/core/security.py     the second create_access_token,      *)
(*                                    verify_token and get_current_user    *)
(* Time is in whole seconds.  A dictionary is a function whose DOMAIN is   *)
(* the set of keys present; d.get(k, default) is Get(d, k, default).       *)
(***************************************************************************)
EXTENDS Integers, Sequences, FiniteSets, TLC

VARIABLES
    debug,      \* app/config.py DEBUG and core/config.py settings.debug, fixed at load
    clock,      \* datetime.utcnow(), in seconds
    store,      \* dependencies._rate_limit_store: key -> list of timestamps
    last,       \* what the most recent completed call did (observation)
    burst,      \* the current run of identical check-and-record calls (observation)
    origin,     \* key -> kinds of request recorded under it (observation)
    calls,      \* number of calls made so far (bounded)
    threads,    \* concurrent executions of rate_limit_dependency
    tok,        \* the token in flight and how it was issued (observation)
    hist        \* key -> limits used and instants admitted so far (observation)

vars == <<debug, clock, store, last, burst, origin, calls, threads, tok, hist>>

(***************************************************************************)
(* Configuration (app/config.py)                                           *)
(***************************************************************************)
SECRET_KEY == "dev-secret-key-change-in-production"
ALGORITHM == "HS256"
ACCESS_TOKEN_EXPIRE_MINUTES == 10080
RATE_LIMIT_ENABLED == TRUE
RATE_LIMIT_REQUESTS == 60
RATE_LIMIT_PERIOD == 60

(***************************************************************************)
(* Bounds of the model                                                     *)
(***************************************************************************)
MaxEpoch == 1       \* clock values lie around 0, 1*period, ..., MaxEpoch*period
MaxLimit == 2       \* limits 0..MaxLimit are passed to check-and-record directly
MaxCalls == 4       \* direct check-and-record calls per behaviour
MaxRequests == 2    \* rate-limited requests per behaviour
MaxThreads == 2     \* concurrent requests
MaxObserved == 6    \* check-and-record calls for the one observed key

ExpireSeconds == ACCESS_TOKEN_EXPIRE_MINUTES * 60

\* The instants the clock takes: each window boundary and its two neighbours.
Times == {t \in UNION {{e * RATE_LIMIT_PERIOD - 1, e * RATE_LIMIT_PERIOD,
                        e * RATE_LIMIT_PERIOD + 1} : e \in 0..MaxEpoch} : t >= 0}

Addresses == {"10.0.0.1", "10.0.0.2"}
\* One subject is shaped like a client address.
Subjects == {"alice", "10.0.0.1"}

(***************************************************************************)
(* Helpers for Python values                                               *)
(***************************************************************************)
\* None is a value distinct from every dictionary and every credential
None == [none |-> TRUE]

Get(d, k, default) == IF k \in DOMAIN d THEN d[k] ELSE default

\* dict.update: the entries of u replace those of d
Update(d, u) == [k \in DOMAIN d \cup DOMAIN u |-> IF k \in DOMAIN u THEN u[k] ELSE d[k]]

DigitChar(d) ==
    CASE d = 0 -> "0" [] d = 1 -> "1" [] d = 2 -> "2" [] d = 3 -> "3"
      [] d = 4 -> "4" [] d = 5 -> "5" [] d = 6 -> "6" [] d = 7 -> "7"
      [] d = 8 -> "8" [] d = 9 -> "9"

RECURSIVE Str(_)
\* str(n) of a non-negative int
Str(n) == IF n < 10 THEN DigitChar(n) ELSE Str(n \div 10) \o DigitChar(n % 10)

HTTPException(status, detail, headers) ==
    [ok |-> FALSE, status |-> status, detail |-> detail, headers |-> headers]

Return(value) == [ok |-> TRUE, value |-> value]

NoHeaders == <<>>

(***************************************************************************)
(* Token functions (dependencies.py)                                       *)
(* An encoded token is its payload and its signature; the signature binds  *)
(* the payload to the signing key and algorithm.                           *)
(***************************************************************************)
Sign(payload, key, alg) == <<payload, key, alg>>

jwt_encode(payload, key, alg) == [payload |-> payload, sig |-> Sign(payload, key, alg)]

\* datetime.utcnow() is read twice: now for the expiry, now2 for iat.  The
\* encoder writes both instants as whole seconds.
create_access_token(data, now, now2) ==
    LET expire == now + ACCESS_TOKEN_EXPIRE_MINUTES * 60
        to_encode == Update(data, [exp |-> expire, iat |-> now2])
    IN  jwt_encode(to_encode, SECRET_KEY, ALGORITHM)

\* Mutant: a token counts as expired one second before its expiry.
jwt_decode_EarlyExpiry(token, key, alg, now) ==
    IF ~ ({"payload", "sig"} \subseteq DOMAIN token)
    THEN [kind |-> "invalid"]
    ELSE IF token.sig # Sign(token.payload, key, alg)
    THEN [kind |-> "invalid"]
    ELSE IF "exp" \in DOMAIN token.payload /\ token.payload.exp <= now + 1
    THEN [kind |-> "expired"]
    ELSE [kind |-> "payload", payload |-> token.payload]

\* jwt.decode: "payload", "expired" or "invalid".  A credential that is not an
\* encoded token (no payload and signature) does not decode.
jwt_decode(token, key, alg, now) ==
    IF ~ ({"payload", "sig"} \subseteq DOMAIN token)
    THEN [kind |-> "invalid"]
    ELSE IF token.sig # Sign(token.payload, key, alg)
    THEN [kind |-> "invalid"]
    ELSE IF "exp" \in DOMAIN token.payload /\ token.payload.exp <= now
    THEN [kind |-> "expired"]
    ELSE [kind |-> "payload", payload |-> token.payload]

verify_token(token, now) ==
    LET d == jwt_decode(token, SECRET_KEY, ALGORITHM, now)
    IN  CASE d.kind = "payload" -> Return(d.payload)
          [] d.kind = "expired" -> HTTPException(401, "Token has expired", NoHeaders)
          [] d.kind = "invalid" -> HTTPException(401, "Invalid token", NoHeaders)

(***************************************************************************)
(* Identity resolution (dependencies.py)                                   *)
(***************************************************************************)
DemoUser ==
    [user_id |-> "demo_user", email |-> "demo@aisaas.com", role |-> "user",
     subscription |-> "free", is_authenticated |-> FALSE, rate_limit |-> 100]

\* Mutant: the table lacks the pro plan.
SubscriptionRateLimitNoPro(subscription) ==
    LET table == [free |-> 100, enterprise |-> 10000]
    IN  IF subscription \in DOMAIN table THEN table[subscription] ELSE 100

\* {"free": 100, "pro": 1000, "enterprise": 10000}.get(subscription, 100)
SubscriptionRateLimit(subscription) ==
    LET table == [free |-> 100, pro |-> 1000, enterprise |-> 10000]
    IN  IF subscription \in DOMAIN table THEN table[subscription] ELSE 100

\* The body of the try block of get_current_user, for a decoded payload.
UserFromPayload(payload) ==
    LET user_id == Get(payload, "sub", "unknown")
        email == Get(payload, "email", user_id \o "@aisaas.com")
        role == Get(payload, "role", "user")
        subscription == Get(payload, "subscription", "free")
        rate_limit == SubscriptionRateLimit(subscription)
    IN  [user_id |-> user_id, email |-> email, role |-> role,
         subscription |-> subscription, is_authenticated |-> TRUE,
         rate_limit |-> rate_limit, token_payload |-> payload]

\* Mutant: the demo user is returned whatever the mode.
get_current_user_DemoAlways(credentials, now, dbg) ==
    IF credentials = None
    THEN Return(DemoUser)
    ELSE LET v == verify_token(credentials, now)
         IN  IF v.ok
             THEN Return(UserFromPayload(v.value))
             ELSE HTTPException(401,
                      "Authentication failed: " \o Str(v.status) \o ": " \o v.detail,
                      NoHeaders)

get_current_user(credentials, now, dbg) ==
    IF credentials = None
    THEN IF dbg
         THEN Return(DemoUser)
         ELSE HTTPException(401, "Authentication required", NoHeaders)
    ELSE LET v == verify_token(credentials, now)
         IN  IF v.ok
             THEN Return(UserFromPayload(v.value))
             ELSE HTTPException(401,
                      "Authentication failed: " \o Str(v.status) \o ": " \o v.detail,
                      NoHeaders)

\* Returns a user dictionary or None; never raises.
get_optional_user(credentials, now, dbg) ==
    IF credentials = None
    THEN None
    ELSE LET r == get_current_user(credentials, now, dbg)
         IN  IF r.ok THEN r.value ELSE None

(***************************************************************************)
(* Rate limiting (dependencies.py, rate_limit_dependency)                  *)
(***************************************************************************)
UserKey(user_id) == "user:" \o user_id

\* Mutant: the anonymous key built with the prefix of the authenticated one.
IpKeyUserPrefix(host) == "user:" \o host

IpKey(host) == "ip:" \o host

\* Mutant: anonymous requests get the whole base limit.
RateLimitKeyFullAnonymous(current_user, host) ==
    IF current_user # None /\ Get(current_user, "is_authenticated", FALSE)
    THEN [key |-> UserKey(current_user.user_id),
          limit |-> Get(current_user, "rate_limit", RATE_LIMIT_REQUESTS)]
    ELSE [key |-> IpKey(host), limit |-> RATE_LIMIT_REQUESTS]

\* Lines 174-182: the rate-limit key and the limit of a request.
RateLimitKey(current_user, host) ==
    IF current_user # None /\ Get(current_user, "is_authenticated", FALSE)
    THEN [key |-> UserKey(current_user.user_id),
          limit |-> Get(current_user, "rate_limit", RATE_LIMIT_REQUESTS)]
    ELSE [key |-> IpKey(host), limit |-> RATE_LIMIT_REQUESTS \div 2]

EmptyStore == <<>>

Put(st, key, value) ==
    [k \in DOMAIN st \cup {key} |-> IF k = key THEN value ELSE st[k]]

\* Mutant: old timestamps are never removed.
PruneNothing(timestamps, current_time) == timestamps

\* Line 191: [t for t in timestamps if current_time - t < RATE_LIMIT_PERIOD]
Prune(timestamps, current_time) ==
    SelectSeq(timestamps, LAMBDA t : current_time - t < RATE_LIMIT_PERIOD)

RateLimitExceeded ==
    HTTPException(429, "Rate limit exceeded",
                  [RetryAfter |-> Str(RATE_LIMIT_PERIOD)])

\* Mutant: the limit test is off by one (> where the code has >=).
check_and_record_OffByOne(st, key, limit, current_time) ==
    IF key \in DOMAIN st
    THEN LET timestamps == Prune(st[key], current_time)
         IN  IF Len(timestamps) > limit
             THEN [result |-> RateLimitExceeded, store |-> st]
             ELSE [result |-> Return(None),
                   store |-> Put(st, key, Append(timestamps, current_time))]
    ELSE [result |-> Return(None), store |-> Put(st, key, <<current_time>>)]

\* Mutant: a rejected call writes the pruned list back.
check_and_record_WritesOnReject(st, key, limit, current_time) ==
    IF key \in DOMAIN st
    THEN LET timestamps == Prune(st[key], current_time)
         IN  IF Len(timestamps) >= limit
             THEN [result |-> RateLimitExceeded, store |-> Put(st, key, timestamps)]
             ELSE [result |-> Return(None),
                   store |-> Put(st, key, Append(timestamps, current_time))]
    ELSE [result |-> Return(None), store |-> Put(st, key, <<current_time>>)]

\* Lines 187-204 run without interruption: the outcome and the store after it.
check_and_record(st, key, limit, current_time) ==
    IF key \in DOMAIN st
    THEN LET timestamps == Prune(st[key], current_time)
         IN  IF Len(timestamps) >= limit
             THEN [result |-> RateLimitExceeded, store |-> st]
             ELSE [result |-> Return(None),
                   store |-> Put(st, key, Append(timestamps, current_time))]
    ELSE [result |-> Return(None), store |-> Put(st, key, <<current_time>>)]

\* The whole dependency for one request, run without interruption.
rate_limit_dependency(st, credentials, host, now, dbg) ==
    LET current_user == get_optional_user(credentials, now, dbg)
        kl == RateLimitKey(current_user, host)
    IN  IF ~RATE_LIMIT_ENABLED
        THEN [result |-> Return(None), store |-> st, current_user |-> current_user,
              key |-> "", limit |-> 0, checked |-> FALSE]
        ELSE LET r == check_and_record(st, kl.key, kl.limit, now)
             IN  [result |-> r.result, store |-> r.store, current_user |-> current_user,
                  key |-> kl.key, limit |-> kl.limit, checked |-> TRUE]

RECURSIVE Fill(_, _, _, _, _)
\* The store after n successive check-and-record calls for key at one instant.
Fill(st, key, limit, now, n) ==
    IF n = 0 THEN st
    ELSE Fill(check_and_record(st, key, limit, now).store, key, limit, now, n - 1)

(***************************************************************************)
(* The second implementation (core/security.py, core/config.py)            *)
(***************************************************************************)
\* expires_delta is None or a timedelta [seconds |-> n]; a zero timedelta is falsy.
\* datetime.utcnow() is read for the expiry (now) and again for iat (now2).
core_create_access_token(data, expires_delta, now, now2) ==
    LET expire == IF expires_delta # None /\ expires_delta.seconds # 0
                  THEN now + expires_delta.seconds
                  ELSE now + ACCESS_TOKEN_EXPIRE_MINUTES * 60
        to_encode == Update(data, [exp |-> expire, iat |-> now2])
    IN  jwt_encode(to_encode, SECRET_KEY, ALGORITHM)

\* jose's jwt.decode rejects an expiry only when exp < now.
jose_decode(token, key, alg, now) ==
    IF ~ ({"payload", "sig"} \subseteq DOMAIN token)
    THEN [kind |-> "invalid"]
    ELSE IF token.sig # Sign(token.payload, key, alg)
    THEN [kind |-> "invalid"]
    ELSE IF "exp" \in DOMAIN token.payload /\ token.payload.exp < now
    THEN [kind |-> "expired"]
    ELSE [kind |-> "payload", payload |-> token.payload]

core_verify_token(token, now) ==
    LET d == jose_decode(token, SECRET_KEY, ALGORITHM, now)
    IN  IF d.kind = "payload"
        THEN Return(d.payload)
        ELSE HTTPException(401, "Invalid authentication credentials", NoHeaders)

CoreDemoUser ==
    [sub |-> "demo_user", email |-> "demo@aisaas.com", role |-> "user", plan |-> "free"]

core_get_current_user(credentials, now, dbg) ==
    IF credentials = None
    THEN IF dbg
         THEN Return(CoreDemoUser)
         ELSE HTTPException(401, "Authentication required", NoHeaders)
    ELSE LET v == core_verify_token(credentials, now)
         IN  IF v.ok
             THEN Return(v.value)
             ELSE HTTPException(401, Str(v.status) \o ": " \o v.detail, NoHeaders)

(***************************************************************************)
(* The routes (main.py)                                                    *)
(***************************************************************************)
\* os.getenv("API_TOKEN", "") with the variable unset
API_TOKEN == ""

valid_tokens == {"demo-token", "test-token", API_TOKEN}

\* verify_api_key, given the credentials HTTPBearer() extracted (never None).
verify_api_key(credentials) ==
    LET token == Get(credentials, "text", "<encoded token>")
    IN  IF token \notin valid_tokens
        THEN HTTPException(401, "Invalid API token", [WWWAuthenticate |-> "Bearer"])
        ELSE Return([user_id |-> "demo-user", token |-> token \o "..."])

\* What the body of chat_completion answers, by what the provider does.
ChatOutcomes == {"not_configured", "completed", "AuthenticationError",
                 "RateLimitError", "Exception"}

chat_completion(auth, outcome) ==
    CASE outcome \in {"not_configured", "completed"} -> Return([user_id |-> auth.user_id])
      [] outcome = "AuthenticationError" ->
            HTTPException(401, "Invalid OpenAI API key", NoHeaders)
      [] outcome = "RateLimitError" ->
            HTTPException(429, "Rate limit exceeded. Please try again later.", NoHeaders)
      [] outcome = "Exception" -> HTTPException(500, "AI service error", NoHeaders)

ImageOutcomes == {"not_configured", "completed", "Exception"}

generate_image(auth, outcome) ==
    CASE outcome \in {"not_configured", "completed"} -> Return([user_id |-> auth.user_id])
      [] outcome = "Exception" -> HTTPException(500, "Image generation failed", NoHeaders)

(***************************************************************************)
(* The credentials a request may carry                                     *)
(***************************************************************************)
Plans == {"free", "pro", "enterprise", "premium"}

\* The data a token is issued for: subject and subscription, each optional.
TokenData ==
    {[sub |-> "alice", subscription |-> p] : p \in Plans}
    \cup {[sub |-> "alice"], [sub |-> "10.0.0.1", subscription |-> "pro"],
          [subscription |-> "pro"]}

\* Tokens are issued now or were issued so long ago that they expire at a
\* window boundary of the modelled clock.
IssueTimes == {0} \cup {RATE_LIMIT_PERIOD - ExpireSeconds}

IssuedTokens ==
    {create_access_token(d, 0, 0) : d \in TokenData}
    \cup {create_access_token([sub |-> "alice", subscription |-> "pro"], t, t) : t \in IssueTimes}

\* Signed with another key, or the payload altered after signing.
ForgedTokens ==
    {jwt_encode(Update(d, [exp |-> ExpireSeconds, iat |-> 0]), "other-key", ALGORITHM)
        : d \in {[sub |-> "alice", subscription |-> "enterprise"]}}
    \cup {[payload |-> Update(signed.payload, [subscription |-> "enterprise"]),
           sig |-> signed.sig]
        : signed \in {create_access_token([sub |-> "alice", subscription |-> "free"], 0, 0)}}

OpaqueCredentials == {[text |-> x] : x \in {"demo-token", "test-token", "garbage"}}

Credentials == {None} \cup IssuedTokens \cup ForgedTokens \cup OpaqueCredentials

(***************************************************************************)
(* State                                                                   *)
(***************************************************************************)
NoCall == [op |-> "none"]

\* No token has been issued yet.
NoToken == [by |-> "none"]

NoBurst == [key |-> "", limit |-> 0, now |-> 0, clean |-> FALSE, results |-> <<>>]

\* The configuration: app DEBUG and core settings.debug are set independently.
Modes == [app : BOOLEAN, core : BOOLEAN]

\* Stores the program reaches by calls of rate_limit_dependency at time 0:
\* nothing recorded yet, or an anonymous client at its limit.
ReachedStores ==
    {EmptyStore,
     Fill(EmptyStore, IpKey("10.0.0.1"), RATE_LIMIT_REQUESTS \div 2, 0,
          RATE_LIMIT_REQUESTS \div 2)}

\* A thread that has not entered rate_limit_dependency yet.
Idle == [pc |-> "idle", key |-> "", limit |-> 0, now |-> 0, timestamps |-> <<>>,
         pre |-> <<>>, with |-> {}, result |-> "none"]

\* settings.debug of core/config.py plays no part in rate_limit_dependency and
\* keeps its default here.
Init ==
    /\ debug \in {m \in Modes : m.core}
    /\ clock = 0
    /\ store \in ReachedStores
    /\ last = NoCall
    /\ burst = NoBurst
    /\ origin = <<>>
    /\ calls = 0
    /\ threads = [t \in 1..MaxThreads |-> Idle]
    /\ tok = NoToken
    /\ hist = EmptyStore

\* The clock moves forward between calls.
Tick ==
    /\ \E t \in Times : t > clock /\ clock' = t
    /\ UNCHANGED <<tok, hist, debug, store, last, burst, origin, calls, threads>>

(***************************************************************************)
(* Requests, each handled without interruption                             *)
(***************************************************************************)
\* A route guarded by Depends(rate_limit_dependency).
RateLimitedRequest(credentials, host) ==
    /\ calls < MaxRequests
    /\ \E r \in {rate_limit_dependency(store, credentials, host, clock, debug.app)} :
          LET kind == IF r.current_user # None
                         /\ Get(r.current_user, "is_authenticated", FALSE)
                      THEN "authenticated" ELSE "anonymous"
          IN  /\ store' = r.store
              /\ last' = [op |-> "rate_limit_dependency", credentials |-> credentials,
                          host |-> host, now |-> clock, pre |-> store,
                          current_user |-> r.current_user, key |-> r.key,
                          limit |-> r.limit, checked |-> r.checked,
                          result |-> r.result]
              /\ origin' = IF r.result.ok /\ r.checked
                           THEN Put(origin, r.key, Get(origin, r.key, {}) \cup {kind})
                           ELSE origin
    /\ calls' = calls + 1
    /\ UNCHANGED <<tok, hist, debug, clock, burst, threads>>

\* A route guarded by Depends(get_current_user) of dependencies.py.
AuthenticatedRequest(credentials) ==
    /\ last' = [op |-> "get_current_user", credentials |-> credentials, now |-> clock,
                result |-> get_current_user(credentials, clock, debug.app)]
    /\ UNCHANGED <<tok, hist, debug, clock, store, burst, origin, calls, threads>>

\* A route guarded by Depends(get_current_user) of core/security.py.
CoreAuthenticatedRequest(credentials) ==
    /\ last' = [op |-> "core_get_current_user", credentials |-> credentials,
                now |-> clock,
                result |-> core_get_current_user(credentials, clock, debug.core)]
    /\ UNCHANGED <<tok, hist, debug, clock, store, burst, origin, calls, threads>>

\* HTTPBearer() of main.py answers a request without credentials itself; the
\* status is 403 or 401 by the version of the framework.
NotAuthenticated == {HTTPException(st, "Not authenticated", NoHeaders) : st \in {401, 403}}

\* One request of a route of main.py: its only dependency is verify_api_key,
\* and the handler runs when that returns.
RouteCall(op, credentials, now, outcome, refused) ==
    LET auth == IF credentials = None THEN refused ELSE verify_api_key(credentials)
    IN  [op |-> op, credentials |-> credentials, now |-> now, auth |-> auth,
         resolved |-> FALSE, checked |-> FALSE, handler |-> auth.ok,
         result |-> IF ~auth.ok THEN auth
                    ELSE IF op = "chat_completion"
                    THEN chat_completion(auth.value, outcome)
                    ELSE generate_image(auth.value, outcome)]

\* POST /api/chat
ChatCompletion(credentials) ==
    /\ \E outcome \in ChatOutcomes, refused \in NotAuthenticated :
          last' = RouteCall("chat_completion", credentials, clock, outcome, refused)
    /\ UNCHANGED <<tok, hist, debug, clock, store, burst, origin, calls, threads>>

\* POST /api/image
GenerateImage(credentials) ==
    /\ \E outcome \in ImageOutcomes, refused \in NotAuthenticated :
          last' = RouteCall("generate_image", credentials, clock, outcome, refused)
    /\ UNCHANGED <<tok, hist, debug, clock, store, burst, origin, calls, threads>>

\* The rate-limited pipeline.
Next ==
    \/ Tick
    \/ \E c \in Credentials, h \in Addresses : RateLimitedRequest(c, h)

Spec == Init /\ [][Next]_vars

\* Identity resolution and the routes of main.py; the store is not touched.
InitAuth ==
    /\ debug \in Modes
    /\ clock = 0
    /\ store = EmptyStore
    /\ last = NoCall
    /\ burst = NoBurst
    /\ origin = <<>>
    /\ calls = 0
    /\ threads = [t \in 1..MaxThreads |-> Idle]
    /\ tok = NoToken
    /\ hist = EmptyStore

NextAuth ==
    \/ Tick
    \/ \E c \in Credentials : AuthenticatedRequest(c)
    \/ \E c \in Credentials : CoreAuthenticatedRequest(c)
    \/ \E c \in Credentials : ChatCompletion(c)
    \/ \E c \in Credentials : GenerateImage(c)

SpecAuth == InitAuth /\ [][NextAuth]_vars

(***************************************************************************)
(* check-and-record called directly, one call after the other              *)
(* (lines 185-204 of rate_limit_dependency with key and limit given)       *)
(***************************************************************************)
RLKeys == {IpKey("10.0.0.1"), UserKey("alice")}

Limits == 0..MaxLimit

InitRL ==
    /\ debug = [app |-> TRUE, core |-> TRUE]
    /\ clock = 0
    /\ store = EmptyStore
    /\ last = NoCall
    /\ burst = NoBurst
    /\ origin = <<>>
    /\ calls = 0
    /\ threads = [t \in 1..MaxThreads |-> Idle]
    /\ tok = NoToken
    /\ hist = EmptyStore

\* The run of consecutive calls with the same key, limit and instant, and
\* whether the key's window was empty when the run began.
NextBurst(b, st, key, limit, now, admitted) ==
    IF b.results # <<>> /\ b.key = key /\ b.limit = limit /\ b.now = now
    THEN [b EXCEPT !.results = Append(@, admitted)]
    ELSE [key |-> key, limit |-> limit, now |-> now,
          clean |-> Len(Prune(Get(st, key, <<>>), now)) = 0,
          results |-> <<admitted>>]

\* Nothing was checked for a key yet.
NoHist == [limits |-> {}, admitted |-> <<>>, checked |-> 0]

\* The limits a key was checked with, the instants of its admitted calls and
\* the instant of its most recent check.
NextHist(h, limit, now, admitted) ==
    [limits |-> h.limits \cup {limit},
     admitted |-> IF admitted THEN Append(h.admitted, now) ELSE h.admitted,
     checked |-> now]

CheckAndRecord(key, limit) ==
    /\ calls < MaxCalls
    /\ \E r \in {check_and_record(store, key, limit, clock)} :
          /\ store' = r.store
          /\ last' = [op |-> "check_and_record", key |-> key, limit |-> limit,
                      now |-> clock, pre |-> store, before |-> burst,
                      result |-> r.result]
          /\ burst' = NextBurst(burst, store, key, limit, clock, r.result.ok)
    /\ calls' = calls + 1
    /\ UNCHANGED <<tok, hist, debug, clock, origin, threads>>

NextRL ==
    \/ Tick
    \/ \E k \in RLKeys, l \in Limits : CheckAndRecord(k, l)

SpecRL == InitRL /\ [][NextRL]_vars

\* The same calls for one client, observed over the whole behaviour (calls for
\* another key leave its entry alone: C4).
CapKeys == {UserKey("alice")}

CheckAndObserve(key, limit) ==
    /\ calls < MaxObserved
    /\ \E r \in {check_and_record(store, key, limit, clock)} :
          /\ store' = r.store
          /\ hist' = Put(hist, key, NextHist(Get(hist, key, NoHist), limit, clock,
                                             r.result.ok))
    /\ calls' = calls + 1
    /\ UNCHANGED <<tok, debug, clock, last, burst, origin, threads>>

NextCap ==
    \/ Tick
    \/ \E k \in CapKeys, l \in Limits : CheckAndObserve(k, l)

SpecCap == InitRL /\ [][NextCap]_vars

(***************************************************************************)
(* rate_limit_dependency run by concurrent threads (a def dependency runs  *)
(* in the thread pool); one step per statement of lines 185-204            *)
(***************************************************************************)
Running == {t \in 1..MaxThreads : threads[t].pc \notin {"idle", "done"}}

\* Stores reached before the threads start: empty, or one call recorded.
ConcStores == {EmptyStore} \cup {Fill(EmptyStore, k, 1, 0, 1) : k \in RLKeys}

InitConc ==
    /\ debug = [app |-> TRUE, core |-> TRUE]
    /\ clock = 0
    /\ store \in ConcStores
    /\ last = NoCall
    /\ burst = NoBurst
    /\ origin = <<>>
    /\ calls = 0
    /\ threads = [t \in 1..MaxThreads |-> Idle]
    /\ tok = NoToken
    /\ hist = EmptyStore

Step(t, from, next) ==
    /\ threads[t].pc = from
    /\ threads' = [threads EXCEPT ![t] = next]
    /\ UNCHANGED <<tok, hist, debug, clock, last, burst, origin, calls>>

\* Lines 174-182 have chosen key and limit.
Enter(t, key, limit) ==
    /\ Step(t, "idle", [threads[t] EXCEPT !.pc = "L185", !.key = key, !.limit = limit,
                                           !.pre = store, !.with = Running])
    /\ UNCHANGED store

\* Line 185: current_time = datetime.utcnow().timestamp()
ReadClock(t) ==
    /\ Step(t, "L185", [threads[t] EXCEPT !.pc = "L187", !.now = clock])
    /\ UNCHANGED store

\* Line 187: if key in _rate_limit_store
TestKey(t) ==
    /\ Step(t, "L187", [threads[t] EXCEPT !.pc =
                            IF threads[t].key \in DOMAIN store THEN "L188" ELSE "L204"])
    /\ UNCHANGED store

\* Line 188: timestamps = _rate_limit_store[key]
ReadEntry(t) ==
    /\ Step(t, "L188", [threads[t] EXCEPT !.pc = "L191",
                                           !.timestamps = store[threads[t].key]])
    /\ UNCHANGED store

\* Line 191: the list comprehension builds a new list
PruneEntry(t) ==
    /\ Step(t, "L191", [threads[t] EXCEPT !.pc = "L194",
                            !.timestamps = Prune(threads[t].timestamps, threads[t].now)])
    /\ UNCHANGED store

\* Lines 194-199: raise 429 when the limit is reached
CheckLimit(t) ==
    /\ Step(t, "L194", IF Len(threads[t].timestamps) >= threads[t].limit
                       THEN [threads[t] EXCEPT !.pc = "done", !.result = "rejected"]
                       ELSE [threads[t] EXCEPT !.pc = "L201"])
    /\ UNCHANGED store

\* Line 201: timestamps.append(current_time)
AppendNow(t) ==
    /\ Step(t, "L201", [threads[t] EXCEPT !.pc = "L202",
                            !.timestamps = Append(threads[t].timestamps, threads[t].now)])
    /\ UNCHANGED store

\* Line 202: _rate_limit_store[key] = timestamps
WriteBack(t) ==
    /\ Step(t, "L202", [threads[t] EXCEPT !.pc = "done", !.result = "admitted"])
    /\ store' = Put(store, threads[t].key, threads[t].timestamps)

\* Line 204: _rate_limit_store[key] = [current_time]
CreateEntry(t) ==
    /\ Step(t, "L204", [threads[t] EXCEPT !.pc = "done", !.result = "admitted"])
    /\ store' = Put(store, threads[t].key, <<threads[t].now>>)

NextConc ==
    \/ Tick
    \/ \E t \in 1..MaxThreads, k \in RLKeys, l \in Limits : Enter(t, k, l)
    \/ \E t \in 1..MaxThreads : ReadClock(t)
    \/ \E t \in 1..MaxThreads : TestKey(t)
    \/ \E t \in 1..MaxThreads : ReadEntry(t)
    \/ \E t \in 1..MaxThreads : PruneEntry(t)
    \/ \E t \in 1..MaxThreads : CheckLimit(t)
    \/ \E t \in 1..MaxThreads : AppendNow(t)
    \/ \E t \in 1..MaxThreads : WriteBack(t)
    \/ \E t \in 1..MaxThreads : CreateEntry(t)

SpecConc == InitConc /\ [][NextConc]_vars

(***************************************************************************)
(* Tokens issued, altered and verified: create_access_token and            *)
(* verify_token of dependencies.py and of core/security.py, which share    *)
(* the signing key and the algorithm                                       *)
(***************************************************************************)
\* The expires_delta arguments given to core create_access_token: none, a zero
\* timedelta, one second, one period, and a negative timedelta.
Deltas ==
    {None} \cup {[seconds |-> n] : n \in {0 - RATE_LIMIT_PERIOD, 0, 1, RATE_LIMIT_PERIOD}}

\* The data given to create_access_token: a subject alone, with further claims,
\* with exp and iat entries of the caller's own, and without a subject.
IssueData ==
    {[sub |-> s] : s \in Subjects}
    \cup {[sub |-> "alice", subscription |-> "pro"],
          [sub |-> "alice", exp |-> 0, iat |-> ExpireSeconds],
          [subscription |-> "pro"]}

\* The instants of the clock: those of Times, and each expiry of a token issued
\* at the first instants with its two neighbours.
TokenTimes ==
    Times \cup {t \in UNION {{n + l - 1, n + l, n + l + 1}
                                : n \in {0, 1}, l \in {1, RATE_LIMIT_PERIOD, ExpireSeconds}}
                 : t >= 0}

\* What a party holding an encoded token but not the key can make of it: another
\* subject or a later expiry under the old signature, or its own signature.
Alterations(token) ==
    {[payload |-> Update(token.payload, [sub |-> "mallory"]), sig |-> token.sig],
     [payload |-> Update(token.payload, [exp |-> token.payload.exp + ExpireSeconds]),
      sig |-> token.sig],
     jwt_encode(token.payload, "other-key", ALGORITHM)}

InitTok ==
    /\ debug = [app |-> TRUE, core |-> TRUE]
    /\ clock = 0
    /\ store = EmptyStore
    /\ last = NoCall
    /\ burst = NoBurst
    /\ origin = <<>>
    /\ calls = 0
    /\ threads = [t \in 1..MaxThreads |-> Idle]
    /\ tok = NoToken
    /\ hist = EmptyStore

TokenTick ==
    /\ \E t \in TokenTimes : t > clock /\ clock' = t
    /\ UNCHANGED <<tok, hist, debug, store, last, burst, origin, calls, threads>>

\* The second reading of the clock is the first one or the next second.
SecondReading(now) == {now} \cup ({now + 1} \cap TokenTimes)

\* dependencies.create_access_token(data)
Issue(data) ==
    /\ tok = NoToken
    /\ \E now2 \in SecondReading(clock) :
          /\ tok' = [by |-> "app", data |-> data, delta |-> None, now |-> clock,
                     now2 |-> now2, altered |-> FALSE,
                     token |-> create_access_token(data, clock, now2)]
          /\ clock' = now2
    /\ UNCHANGED <<hist, debug, store, last, burst, origin, calls, threads>>

\* core.security.create_access_token(data, expires_delta)
CoreIssue(data, expires_delta) ==
    /\ tok = NoToken
    /\ \E now2 \in SecondReading(clock) :
          /\ tok' = [by |-> "core", data |-> data, delta |-> expires_delta,
                     now |-> clock, now2 |-> now2, altered |-> FALSE,
                     token |-> core_create_access_token(data, expires_delta, clock, now2)]
          /\ clock' = now2
    /\ UNCHANGED <<hist, debug, store, last, burst, origin, calls, threads>>

\* The token is altered on its way back to the server.
Alter ==
    /\ tok # NoToken
    /\ ~tok.altered
    /\ \E a \in Alterations(tok.token) : tok' = [tok EXCEPT !.altered = TRUE, !.token = a]
    /\ UNCHANGED <<hist, debug, clock, store, last, burst, origin, calls, threads>>

\* dependencies.verify_token(token)
Verify ==
    /\ tok # NoToken
    /\ last' = [op |-> "verify_token", token |-> tok.token, now |-> clock,
                result |-> verify_token(tok.token, clock)]
    /\ UNCHANGED <<tok, hist, debug, clock, store, burst, origin, calls, threads>>

\* core.security.verify_token(token)
CoreVerify ==
    /\ tok # NoToken
    /\ last' = [op |-> "core_verify_token", token |-> tok.token, now |-> clock,
                result |-> core_verify_token(tok.token, clock)]
    /\ UNCHANGED <<tok, hist, debug, clock, store, burst, origin, calls, threads>>

\* The token is presented to a route guarded by dependencies.get_current_user.
Present ==
    /\ tok # NoToken
    /\ last' = [op |-> "get_current_user", credentials |-> tok.token, now |-> clock,
                result |-> get_current_user(tok.token, clock, debug.app)]
    /\ UNCHANGED <<tok, hist, debug, clock, store, burst, origin, calls, threads>>

NextTok ==
    \/ TokenTick
    \/ \E d \in IssueData : Issue(d)
    \/ \E d \in IssueData, e \in Deltas : CoreIssue(d, e)
    \/ Alter
    \/ Verify
    \/ CoreVerify
    \/ Present

SpecTok == InitTok /\ [][NextTok]_vars

(***************************************************************************)
(* Properties                                                              *)
(***************************************************************************)
Done(t) == threads[t].pc = "done"

Overlap(a, b) == b \in threads[a].with \/ a \in threads[b].with

\* When thread t entered, its key's window held limit - 1 timestamps.
OneSlotLeft(t) ==
    Len(Prune(Get(threads[t].pre, threads[t].key, <<>>), threads[t].now))
        = threads[t].limit - 1

SameWindow(a, b) ==
    /\ threads[a].now - threads[b].now < RATE_LIMIT_PERIOD
    /\ threads[b].now - threads[a].now < RATE_LIMIT_PERIOD

\* C1: two concurrent requests for one key that entered on the same store and
\* both found one slot left in the same window are never both admitted.
C1_OneSlotOneAdmission ==
    \A a, b \in 1..MaxThreads :
        ( /\ a # b /\ Done(a) /\ Done(b) /\ Overlap(a, b)
          /\ threads[a].pre = threads[b].pre
          /\ threads[a].key = threads[b].key
          /\ threads[a].limit = threads[b].limit
          /\ OneSlotLeft(a) /\ OneSlotLeft(b) /\ SameWindow(a, b) )
        => ~ (threads[a].result = "admitted" /\ threads[b].result = "admitted")

\* C2: in a run of calls with one key, one limit L and one instant that began
\* with the key's window empty, calls 1..L are admitted and call L+1 is rejected.
C2_BurstAdmitsExactlyL ==
    burst.clean =>
        \A i \in 1..Len(burst.results) :
            /\ i <= burst.limit => burst.results[i]
            /\ i = burst.limit + 1 => ~burst.results[i]

AllAt(entry, t0) == \A i \in 1..Len(entry) : entry[i] = t0

\* C3: when the entry of a key holds L >= 1 timestamps, all of the instant t0
\* (L calls were admitted at t0), a call with limit L before t0 + period is
\* rejected and a call after t0 + period is admitted.
C3_SlidingWindow ==
    (last.op = "check_and_record" /\ last.key \in DOMAIN last.pre) =>
        LET entry == last.pre[last.key]
        IN  \A t0 \in Times :
                (Len(entry) = last.limit /\ AllAt(entry, t0)) =>
                    /\ last.now < t0 + RATE_LIMIT_PERIOD => ~last.result.ok
                    /\ last.now > t0 + RATE_LIMIT_PERIOD => last.result.ok

\* The limit L >= 1 was filled by L admitted calls at one instant and the next
\* call, after the window, was admitted.
C3_Witness ==
    /\ last.op = "check_and_record"
    /\ last.limit >= 1
    /\ last.before.key = last.key /\ last.before.limit = last.limit
    /\ last.before.clean
    /\ Len(last.before.results) = last.limit
    /\ \A i \in 1..Len(last.before.results) : last.before.results[i]
    /\ last.now > last.before.now + RATE_LIMIT_PERIOD
    /\ last.result.ok

\* C4: a call that finds the pruned count of the key's entry >= limit fails
\* with 429 and Retry-After equal to the window period, and no rejected call
\* changes the store.
C4_RejectionLeavesStore ==
    last.op = "check_and_record" =>
        /\ ( /\ last.key \in DOMAIN last.pre
             /\ Len(Prune(last.pre[last.key], last.now)) >= last.limit )
           => ~last.result.ok
        /\ ~last.result.ok =>
              /\ last.result.status = 429
              /\ last.result.headers.RetryAfter = Str(RATE_LIMIT_PERIOD)
              /\ store = last.pre

\* A call was rejected while the stored entry held timestamps that pruning
\* removes.
C4_Witness ==
    /\ last.op = "check_and_record"
    /\ ~last.result.ok
    /\ Len(Prune(last.pre[last.key], last.now)) < Len(last.pre[last.key])

\* C5: a request whose credential fails verification is never admitted under
\* the anonymous key.
C5_FailedCredentialNotAnonymous ==
    ( /\ last.op = "rate_limit_dependency"
      /\ last.credentials # None
      /\ ~verify_token(last.credentials, last.now).ok )
    => ~ (last.result.ok /\ last.key = IpKey(last.host))

\* C6: the handler of /api/chat or /api/image runs only after the request's
\* identity was resolved and its rate limit checked and recorded.
C6_HandlerGuarded ==
    (last.op \in {"chat_completion", "generate_image"} /\ last.handler)
    => (last.resolved /\ last.checked)

\* C7 as claimed: without a credential an anonymous identity is returned in
\* every mode, with the demo subject only in debug mode.
C7_AnonymousInEveryMode ==
    (last.op = "get_current_user" /\ last.credentials = None) =>
        /\ last.result.ok
        /\ ~last.result.value.is_authenticated
        /\ last.result.value.rate_limit = 100
        /\ last.result.value.user_id = "demo_user" => debug.app

\* C7 amended: without a credential, debug mode returns the demo identity
\* (not authenticated, quota 100 in dependencies.py; the demo claims of plan
\* free in core/security.py) and production fails with 401.
C7_AnonymousOnlyInDebug ==
    /\ (last.op = "get_current_user" /\ last.credentials = None) =>
          IF debug.app
          THEN /\ last.result.ok
               /\ ~last.result.value.is_authenticated
               /\ last.result.value.rate_limit = 100
               /\ last.result.value.user_id = "demo_user"
          ELSE /\ ~last.result.ok
               /\ last.result.status = 401
               /\ last.result.detail = "Authentication required"
    /\ (last.op = "core_get_current_user" /\ last.credentials = None) =>
          IF debug.core
          THEN /\ last.result.ok
               /\ last.result.value.sub = "demo_user"
               /\ last.result.value.plan = "free"
          ELSE /\ ~last.result.ok
               /\ last.result.status = 401
               /\ last.result.detail = "Authentication required"

\* A request without credential was refused in production mode.
C7_Witness ==
    /\ last.op = "get_current_user"
    /\ last.credentials = None
    /\ ~debug.app
    /\ ~last.result.ok

\* C8: the quota of a verified credential is 100, 1000 or 10000 for the
\* subscription claim free, pro or enterprise and 100 for any other or none.
C8_QuotaTable ==
    ( /\ last.op = "get_current_user"
      /\ last.credentials # None
      /\ last.result.ok ) =>
        LET claims == last.credentials.payload
            quota == last.result.value.rate_limit
        IN  /\ last.result.value.is_authenticated
            /\ IF "subscription" \notin DOMAIN claims THEN quota = 100
               ELSE CASE claims.subscription = "free" -> quota = 100
                      [] claims.subscription = "pro" -> quota = 1000
                      [] claims.subscription = "enterprise" -> quota = 10000
                      [] OTHER -> quota = 100

\* The token of alice with plan pro resolved to quota 1000.
C8_Witness ==
    /\ last.op = "get_current_user"
    /\ last.credentials = create_access_token([sub |-> "alice", subscription |-> "pro"], 0, 0)
    /\ last.result.ok
    /\ last.result.value.user_id = "alice"
    /\ last.result.value.rate_limit = 1000

\* C9: a request without credential is checked under "ip:" + address with half
\* the base limit; a request with a verified credential is checked under
\* "user:" + subject with the quota get_current_user derives.
C9_KeyAndLimit ==
    last.op = "rate_limit_dependency" =>
        LET identity == get_current_user(last.credentials, last.now, debug.app)
        IN  /\ last.checked
            /\ last.credentials = None =>
                  /\ last.key = "ip:" \o last.host
                  /\ 2 * last.limit = RATE_LIMIT_REQUESTS
            /\ (last.credentials # None /\ identity.ok) =>
                  /\ last.key = "user:" \o identity.value.user_id
                  /\ last.limit = identity.value.rate_limit

\* An authenticated request of alice (pro) was checked under user:alice with
\* limit 1000 after an anonymous request had been recorded.
C9_Witness ==
    /\ last.op = "rate_limit_dependency"
    /\ last.key = "user:alice"
    /\ last.limit = 1000
    /\ last.result.ok
    /\ \E h \in Addresses : IpKey(h) \in DOMAIN last.pre

\* C10: no anonymous key equals an authenticated key, and no entry of the
\* store records both anonymous and authenticated requests.
C10_KeysNeverCollide ==
    /\ \A a \in Addresses, s \in Subjects \cup Addresses \cup {"unknown"} :
          IpKey(a) # UserKey(s)
    /\ \A k \in DOMAIN origin : Cardinality(origin[k]) = 1

\* An anonymous request from 10.0.0.1 and an authenticated request of the
\* subject "10.0.0.1" were both recorded.
C10_Witness ==
    /\ IpKey("10.0.0.1") \in DOMAIN origin
    /\ UserKey("10.0.0.1") \in DOMAIN origin
    /\ origin[IpKey("10.0.0.1")] = {"anonymous"}
    /\ origin[UserKey("10.0.0.1")] = {"authenticated"}

(***************************************************************************)
(* Properties of the tokens                                                *)
(***************************************************************************)
\* The last call verified the token in flight, which nobody altered.
VerifiedAsIssued ==
    /\ last.op \in {"verify_token", "core_verify_token"}
    /\ tok # NoToken
    /\ ~tok.altered
    /\ last.token = tok.token

\* A lifetime that makes sense: none given (the configured one) or a positive one.
ValidTtl(delta) == delta = None \/ delta.seconds > 0

\* C11: a token issued for a subject with a valid lifetime and verified, by
\* either implementation, at an instant strictly before its expiry is accepted,
\* and the payload returned carries that subject, every other claim of the data
\* as given, and the exp and iat the issuer wrote.
C11_RoundTrip ==
    (/\ VerifiedAsIssued
     /\ "sub" \in DOMAIN tok.data
     /\ ValidTtl(tok.delta)
     /\ last.now < tok.token.payload.exp)
    => /\ last.result.ok
       /\ last.result.value.sub = tok.data.sub
       /\ DOMAIN last.result.value = DOMAIN tok.data \cup {"exp", "iat"}
       /\ \A k \in DOMAIN tok.data \ {"exp", "iat"} :
              last.result.value[k] = tok.data[k]
       /\ last.result.value.exp = tok.token.payload.exp
       /\ last.result.value.iat = tok.now2

\* A token issued by core with a lifetime of one period is verified by core in
\* the last second before its expiry and comes back with its subject and plan.
C11_Witness ==
    /\ VerifiedAsIssued
    /\ last.op = "core_verify_token"
    /\ tok.by = "core"
    /\ tok.delta = [seconds |-> RATE_LIMIT_PERIOD]
    /\ tok.data = [sub |-> "alice", subscription |-> "pro"]
    /\ last.now = tok.token.payload.exp - 1
    /\ last.result.ok
    /\ last.result.value.sub = "alice"
    /\ last.result.value.subscription = "pro"

\* The last call verified the token in flight, altered or not.
VerifiedInFlight ==
    /\ last.op \in {"verify_token", "core_verify_token"}
    /\ tok # NoToken
    /\ last.token = tok.token

\* The lifetime the claims speak of: the one given, the configured one otherwise.
TtlInForce(t) == IF t.delta = None THEN ExpireSeconds ELSE t.delta.seconds

\* What the implementation that made the last call answers for a token.
VerifyAgain(token, now) ==
    IF last.op = "verify_token" THEN verify_token(token, now)
    ELSE core_verify_token(token, now)

\* C12: a token verified at or after issued-at + ttl is refused, an altered
\* token is refused, and the refusal of an expired token is not the refusal the
\* same verify gives an altered token (expired and malformed are two outcomes).
C12_ExpiredAndMalformedDistinct ==
    (VerifiedInFlight /\ ValidTtl(tok.delta))
    => /\ tok.altered => ~last.result.ok
       /\ (~tok.altered /\ last.now >= tok.now2 + TtlInForce(tok))
             => /\ ~last.result.ok
                /\ \A a \in Alterations(tok.token) :
                       VerifyAgain(a, last.now) # last.result

\* C13: a token issued without a subject, unaltered and unexpired, is refused
\* by verify_token of either implementation and resolves to no identity in
\* get_current_user.
C13_NoSubjectRejected ==
    (/\ last.op \in {"verify_token", "core_verify_token", "get_current_user"}
     /\ tok # NoToken
     /\ ~tok.altered
     /\ "sub" \notin DOMAIN tok.data
     /\ last.now < tok.token.payload.exp)
    => ~last.result.ok

\* C14: every token as issued, whatever the data and the lifetime argument,
\* has exp strictly after iat, and exp - iat is the lifetime in force.
C14_ExpiryAfterIssuedAt ==
    (tok # NoToken /\ ~tok.altered)
    => /\ tok.token.payload.exp > tok.token.payload.iat
       /\ tok.token.payload.exp - tok.token.payload.iat = TtlInForce(tok)

(***************************************************************************)
(* Properties of the store under calls made one after the other            *)
(***************************************************************************)
\* C15: whatever calls were made, with whatever limits, every timestamp stored
\* for a key lies within one period of the key's most recent check.
C15_StoredWithinWindow ==
    \A k \in DOMAIN store \cap DOMAIN hist :
        \A i \in 1..Len(store[k]) :
            /\ store[k][i] <= hist[k].checked
            /\ hist[k].checked - store[k][i] <= RATE_LIMIT_PERIOD

\* The admitted calls of history h from the i-th on that fall in the period
\* beginning at the i-th.
AdmittedFrom(h, i) ==
    {j \in 1..Len(h.admitted) :
        /\ h.admitted[i] <= h.admitted[j]
        /\ h.admitted[j] < h.admitted[i] + RATE_LIMIT_PERIOD}

\* The key was always checked with the one limit L >= 1.
FixedLimit(k, L) == hist[k].limits = {L} /\ L >= 1

\* C16: for a key always checked with one limit L >= 1, the clock never going
\* back, no period [t, t + RATE_LIMIT_PERIOD) holds more than L admitted calls
\* and the entry stored for the key never holds more than L timestamps.
C16_RateCap ==
    \A k \in DOMAIN hist : \A L \in Limits :
        FixedLimit(k, L)
        => /\ Len(Get(store, k, <<>>)) <= L
           /\ \A i \in 1..Len(hist[k].admitted) :
                  Cardinality(AdmittedFrom(hist[k], i)) <= L

\* A key checked four times with limit 2: two calls admitted at time 0, one
\* rejected, and one admitted a period later, when the entry holds it alone.
C16_Witness ==
    \E k \in DOMAIN hist :
        /\ FixedLimit(k, 2)
        /\ DOMAIN hist = {k}
        /\ calls = 4
        /\ hist[k].admitted = <<0, 0, RATE_LIMIT_PERIOD>>
        /\ store[k] = <<RATE_LIMIT_PERIOD>>

(***************************************************************************)
(* Properties of the store under concurrent calls                          *)
(***************************************************************************)
\* The threads that returned admitted for key k.
AdmittedThreads(k) ==
    {t \in 1..MaxThreads :
        Done(t) /\ threads[t].key = k /\ threads[t].result = "admitted"}

\* Thread t's instant lies in the window of the latest call made for its key.
InCurrentWindow(t) ==
    \A u \in 1..MaxThreads :
        (Done(u) /\ threads[u].key = threads[t].key)
        => threads[u].now - threads[t].now < RATE_LIMIT_PERIOD

\* How often instant n occurs in a list of timestamps.
Occurrences(timestamps, n) ==
    Cardinality({i \in 1..Len(timestamps) : timestamps[i] = n})

\* C17: once every call has returned, the entry of a key holds the timestamp
\* of each call admitted for it within the current window, once per call.
C17_NoLostUpdate ==
    (Running = {})
    => \A k \in RLKeys : \A t \in AdmittedThreads(k) :
          InCurrentWindow(t)
          => Occurrences(Get(store, k, <<>>), threads[t].now)
                >= Cardinality({u \in AdmittedThreads(k) : threads[u].now = threads[t].now})

====
